---- MODULE Spec2Model ----
(***************************************************************************)
(* ctx MCP server (src/mcp/ctx_mcp_server.py): the tool catalog, the       *)
(* dispatcher call_tool, the process runner run_ctx and the response       *)
(* mapping, run by a single-threaded event loop.                           *)
(*                                                                         *)
(* Python strings are sequences of one-character strings, so that          *)
(* formatting (f-strings, str()) is concatenation and texts can be         *)
(* compared and measured.  An argument object is a function from the keys  *)
(* the caller supplied to their values; a key the caller left out is not   *)
(* in its domain.                                                          *)
(***************************************************************************)
EXTENDS Integers, Sequences, FiniteSets, TLC

VARIABLES pending, calls, last

vars == <<pending, calls, last>>

(* Requests that may wait on the transport at once. *)
MaxPending == 2

(* Variant: a timeout half as long again. *)
LongerTimeout == 60 + 30

(* subprocess.run(..., timeout=60), in seconds. *)
SubprocessTimeout == 60

----------------------------------------------------------------------------
(* String literals of the source.                                          *)

S_ctx ==
    <<"c","t","x">>

S_status ==
    <<"s","t","a","t","u","s">>

S_map ==
    <<"m","a","p">>

S_summarize ==
    <<"s","u","m","m","a","r","i","z","e">>

S_search ==
    <<"s","e","a","r","c","h">>

S_related ==
    <<"r","e","l","a","t","e","d">>

S_diff_context ==
    <<"d","i","f","f","-","c","o","n","t","e","x","t">>

S_schema ==
    <<"s","c","h","e","m","a">>

S_version ==
    <<"v","e","r","s","i","o","n">>

S_json ==
    <<"-","-","j","s","o","n">>

S_depth ==
    <<"-","-","d","e","p","t","h">>

S_skeleton ==
    <<"-","-","s","k","e","l","e","t","o","n">>

S_symbol ==
    <<"-","-","s","y","m","b","o","l">>

S_caller ==
    <<"-","-","c","a","l","l","e","r">>

S_C ==
    <<"-","C">>

N_ctx_status ==
    <<"c","t","x","_","s","t","a","t","u","s">>

N_ctx_map ==
    <<"c","t","x","_","m","a","p">>

N_ctx_summarize ==
    <<"c","t","x","_","s","u","m","m","a","r","i","z","e">>

N_ctx_search ==
    <<"c","t","x","_","s","e","a","r","c","h">>

N_ctx_related ==
    <<"c","t","x","_","r","e","l","a","t","e","d">>

N_ctx_diff_context ==
    <<"c","t","x","_","d","i","f","f","_","c","o","n","t","e","x","t">>

N_ctx_schema ==
    <<"c","t","x","_","s","c","h","e","m","a">>

N_ctx_version ==
    <<"c","t","x","_","v","e","r","s","i","o","n">>

NotFoundMsg ==
    <<"c","t","x"," ","n","o","t"," ","f","o","u","n","d"," ","i","n"," ","P","A","T","H","."," ","P","l","e","a","s","e"," ","i","n","s","t","a","l","l"," ","c","t","x"," ","f","i","r","s","t",".">>

TimedOutMsg ==
    <<"C","o","m","m","a","n","d"," ","t","i","m","e","d"," ","o","u","t"," ","a","f","t","e","r"," ","6","0"," ","s","e","c","o","n","d","s">>

UnknownToolPrefix ==
    <<"U","n","k","n","o","w","n"," ","t","o","o","l",":"," ">>

ErrorPrefix ==
    <<"E","r","r","o","r",":"," ">>

OutputInfix ==
    <<"\n","\n","O","u","t","p","u","t",":"," ">>

ExitCodePrefix ==
    <<"C","o","m","m","a","n","d"," ","f","a","i","l","e","d"," ","w","i","t","h"," ","e","x","i","t"," ","c","o","d","e"," ">>

----------------------------------------------------------------------------
(* Python built-ins the handler uses.                                      *)

DigitChars == <<"0","1","2","3","4","5","6","7","8","9">>

RECURSIVE StrNat(_)
StrNat(n) ==
    IF n < 10 THEN <<DigitChars[n + 1]>>
    ELSE StrNat(n \div 10) \o <<DigitChars[(n % 10) + 1]>>

(* str(n) of an int: decimal digits, a leading "-" for a negative one. *)
Str(n) == IF n < 0 THEN <<"-">> \o StrNat(0 - n) ELSE StrNat(n)

(* Truth value of an int, a str, a bool as an `if` tests it. *)
TruthyInt(n) == n # 0
TruthyStr(s) == Len(s) > 0
TruthyBool(b) == b

Supplied(arguments, key) == key \in DOMAIN arguments

(* `if arguments.get(key):` for a key holding an int, a str, a bool; a    *)
(* missing key gives None, which is false.                                 *)
GetInt(arguments, key) == Supplied(arguments, key) /\ TruthyInt(arguments[key])
GetStr(arguments, key) == Supplied(arguments, key) /\ TruthyStr(arguments[key])
GetBool(arguments, key) == Supplied(arguments, key) /\ TruthyBool(arguments[key])

(* arguments.get("paths", []) *)
GetPaths(arguments) ==
    IF Supplied(arguments, "paths") THEN arguments["paths"] ELSE <<>>

TextContent(text) == [type |-> "text", text |-> text]

----------------------------------------------------------------------------
(* Tool catalog: name, declared properties with their types, required.     *)

ToolDecl(name, properties, required) ==
    [name |-> name, properties |-> properties, required |-> required]

NoProperties == [k \in {} |-> "string"]

list_tools ==
    << ToolDecl(N_ctx_status, NoProperties, {}),
       ToolDecl(N_ctx_map, [path |-> "string", depth |-> "integer"], {}),
       ToolDecl(N_ctx_summarize,
                [paths |-> "array", skeleton |-> "boolean", depth |-> "integer"],
                {"paths"}),
       ToolDecl(N_ctx_search,
                [query |-> "string", symbol |-> "boolean", caller |-> "boolean",
                 context |-> "integer"],
                {"query"}),
       ToolDecl(N_ctx_related, [file |-> "string"], {"file"}),
       ToolDecl(N_ctx_diff_context, [git_ref |-> "string"], {}),
       ToolDecl(N_ctx_schema, [command |-> "string"], {"command"}),
       ToolDecl(N_ctx_version, NoProperties, {}) >>

----------------------------------------------------------------------------
(* Dispatcher: the branch of call_tool taken for a name, up to the call of *)
(* run_ctx.  kind "run": run_ctx is called with args; "unknown": the else     *)
(* branch; "raise": arguments[key] on a missing key raises KeyError.       *)

RunCtx(args) == [kind |-> "run", args |-> args, exc |-> ""]
UnknownTool == [kind |-> "unknown", args |-> <<>>, exc |-> ""]
Raise(exc) == [kind |-> "raise", args |-> <<>>, exc |-> exc]

map_args(arguments) ==
    <<S_map, S_json>>
        \o (IF GetStr(arguments, "path") THEN <<arguments["path"]>> ELSE <<>>)
        \o (IF GetInt(arguments, "depth")
            THEN <<S_depth, Str(arguments["depth"])>> ELSE <<>>)

(* Variant: the paths are appended before the --depth flag, as ctx_map    *)
(* does with its path.                                                     *)
summarize_args_paths_first(arguments) ==
    <<S_summarize, S_json>>
        \o (IF GetBool(arguments, "skeleton") THEN <<S_skeleton>> ELSE <<>>)
        \o GetPaths(arguments)
        \o (IF GetInt(arguments, "depth")
            THEN <<S_depth, Str(arguments["depth"])>> ELSE <<>>)

summarize_args(arguments) ==
    <<S_summarize, S_json>>
        \o (IF GetBool(arguments, "skeleton") THEN <<S_skeleton>> ELSE <<>>)
        \o (IF GetInt(arguments, "depth")
            THEN <<S_depth, Str(arguments["depth"])>> ELSE <<>>)
        \o GetPaths(arguments)

search_args(arguments) ==
    <<S_search, S_json>>
        \o (IF GetBool(arguments, "symbol") THEN <<S_symbol>> ELSE <<>>)
        \o (IF GetBool(arguments, "caller") THEN <<S_caller>> ELSE <<>>)
        \o (IF GetInt(arguments, "context")
            THEN <<S_C, Str(arguments["context"])>> ELSE <<>>)
        \o <<arguments["query"]>>

(* Variant: the subcommand spelled like the tool name, with an underscore. *)
diff_context_args_underscore(arguments) ==
    <<<<"d","i","f","f","_","c","o","n","t","e","x","t">>, S_json>>
        \o (IF GetStr(arguments, "git_ref") THEN <<arguments["git_ref"]>> ELSE <<>>)

diff_context_args(arguments) ==
    <<S_diff_context, S_json>>
        \o (IF GetStr(arguments, "git_ref") THEN <<arguments["git_ref"]>> ELSE <<>>)

call_tool_branch(name, arguments) ==
    IF name = N_ctx_status THEN RunCtx(<<S_status, S_json>>)
    ELSE IF name = N_ctx_map THEN RunCtx(map_args(arguments))
    ELSE IF name = N_ctx_summarize THEN RunCtx(summarize_args(arguments))
    ELSE IF name = N_ctx_search THEN
        IF Supplied(arguments, "query") THEN RunCtx(search_args(arguments))
        ELSE Raise("KeyError")
    ELSE IF name = N_ctx_related THEN
        IF Supplied(arguments, "file")
        THEN RunCtx(<<S_related, S_json, arguments["file"]>>)
        ELSE Raise("KeyError")
    ELSE IF name = N_ctx_diff_context THEN RunCtx(diff_context_args(arguments))
    ELSE IF name = N_ctx_schema THEN
        IF Supplied(arguments, "command")
        THEN RunCtx(<<S_schema, arguments["command"]>>)
        ELSE Raise("KeyError")
    ELSE IF name = N_ctx_version THEN RunCtx(<<S_version, S_json>>)
    ELSE UnknownTool

(* The else branch's answer. *)
unknown_tool_response(name) == <<TextContent(UnknownToolPrefix \o name)>>

(* Response mapping after run_ctx returned (stdout, stderr, code). *)
(* Variant: no fallback message when stderr is empty. *)
error_msg_stderr_only(stderr, code) == stderr

error_msg(stderr, code) ==
    IF TruthyStr(stderr) THEN stderr ELSE ExitCodePrefix \o Str(code)

(* Variant: anything on stderr counts as a failure. *)
call_tool_response_stderr_fails(stdout, stderr, code) ==
    IF code # 0 \/ TruthyStr(stderr)
    THEN <<TextContent(ErrorPrefix \o error_msg(stderr, code) \o OutputInfix \o stdout)>>
    ELSE <<TextContent(stdout)>>

(* Variant: an output buffer kept across calls and never cleared. *)
call_tool_response_buffered(stdout, stderr, code) ==
    LET buffer == IF last = {} THEN <<>> ELSE (CHOOSE l \in last : TRUE).stdout
    IN  IF code # 0
        THEN <<TextContent(ErrorPrefix \o error_msg(stderr, code) \o OutputInfix
                           \o buffer \o stdout)>>
        ELSE <<TextContent(buffer \o stdout)>>

call_tool_response(stdout, stderr, code) ==
    IF code # 0
    THEN <<TextContent(ErrorPrefix \o error_msg(stderr, code) \o OutputInfix \o stdout)>>
    ELSE <<TextContent(stdout)>>

(* What run_ctx returns from its two except clauses. *)
run_ctx_not_found == <<<<>>, NotFoundMsg, 1>>
run_ctx_timed_out == <<<<>>, TimedOutMsg, 1>>

----------------------------------------------------------------------------
(* Inputs: the requests a client may send and what the backend may do.     *)
(* Values have the types the catalog declares; any key may be left out.    *)

NoArguments == [k \in {} |-> TRUE]

Opt(key, values) == {NoArguments} \cup {key :> v : v \in values}

Strings == {<<>>, <<"s","r","c">>}
Ints == {0, 12}
Bools == {FALSE, TRUE}
PathLists == {<<>>, <<<<"a">>>>, <<<<"a">>, <<"b">>>>, <<<<"b">>, <<"a">>>>}

N_ctx_bogus == <<"c","t","x","_","b","o","g","u","s">>

ToolNames == {list_tools[i].name : i \in DOMAIN list_tools}
OtherNames == {N_ctx_bogus, S_status, <<>>}

ArgumentsOf(name) ==
    IF name = N_ctx_map
    THEN {p @@ d : p \in Opt("path", Strings), d \in Opt("depth", Ints)}
    ELSE IF name = N_ctx_summarize
    THEN {p @@ s @@ d : p \in Opt("paths", PathLists),
                        s \in Opt("skeleton", Bools), d \in Opt("depth", Ints)}
    ELSE IF name = N_ctx_search
    THEN {q @@ s @@ c @@ x : q \in Opt("query", {<<"q">>}),
                             s \in Opt("symbol", {TRUE}),
                             c \in Opt("caller", Bools),
                             x \in Opt("context", Ints)}
    ELSE IF name = N_ctx_related THEN Opt("file", {<<"f">>})
    ELSE IF name = N_ctx_diff_context THEN Opt("git_ref", Strings)
    ELSE IF name = N_ctx_schema THEN Opt("command", {S_map})
    ELSE {NoArguments}

Request(name, arguments) == [name |-> name, arguments |-> arguments]

Requests ==
    UNION {{Request(n, a) : a \in ArgumentsOf(n)} : n \in ToolNames \cup OtherNames}

(* What a backend process that exits leaves behind. *)
Outcome(stdout, stderr, code) == [stdout |-> stdout, stderr |-> stderr, code |-> code]

Outcomes ==
    {Outcome(o, e, c) : o \in {<<>>, <<"{","}","\n">>},
                        e \in {<<>>, <<"w","a","r","n">>},
                        c \in {0, 2, 0 - 9}}

(* A small part of the inputs, for comparing calls across histories. *)
ProbeRequests ==
    {Request(N_ctx_status, NoArguments),
     Request(N_ctx_map, "depth" :> 12),
     Request(N_ctx_search, "query" :> <<"q">>),
     Request(N_ctx_search, NoArguments),
     Request(N_ctx_bogus, NoArguments)}

ProbeOutcomes ==
    {Outcome(<<"{","}","\n">>, <<>>, 0), Outcome(<<>>, <<"w","a","r","n">>, 2),
     Outcome(<<>>, <<>>, 2)}

----------------------------------------------------------------------------
(* State.  pending: requests waiting on the transport.  calls: the         *)
(* invocations of call_tool the event loop has entered and not yet handed  *)
(* back.  last: history variable, the call handed back most recently.      *)

NewCall(name, arguments) ==
    [name |-> name, arguments |-> arguments, pc |-> "call",
     args |-> <<>>, argv |-> <<>>, attempts |-> 0, elapsed |-> 0,
     backend |-> "none", stdout |-> <<>>, stderr |-> <<>>, code |-> 0,
     ended |-> "", exc |-> "", response |-> <<>>]

Init ==
    /\ pending = 0
    /\ calls = {}
    /\ last = {}

Replace(c, d) == (calls \ {c}) \cup {d}

(* A request arrives on the transport. *)
Arrive ==
    /\ pending < MaxPending
    /\ pending' = pending + 1
    /\ UNCHANGED <<calls, last>>

(* Variant: run_ctx awaits the backend, so the loop is free meanwhile. *)
LoopFreeWhileAwaiting == \A c \in calls : c.pc = "running"

(* call_tool is a coroutine without an await and subprocess.run blocks the *)
(* thread: the loop enters a handler only when none is in progress.        *)
LoopFree == calls = {}

(* The loop enters call_tool(name, arguments): the if/elif chain up to the *)
(* call of run_ctx, the else branch's return, or a KeyError.               *)
call_tool(requests) ==
    /\ pending > 0
    /\ LoopFree
    /\ \E r \in requests :
          LET br == call_tool_branch(r.name, r.arguments)
              c  == NewCall(r.name, r.arguments)
          IN  calls' = calls \cup
                {IF br.kind = "run" THEN [c EXCEPT !.args = br.args]
                 ELSE IF br.kind = "unknown"
                 THEN [c EXCEPT !.pc = "done", !.ended = "returned",
                                !.response = unknown_tool_response(r.name)]
                 ELSE [c EXCEPT !.pc = "done", !.ended = "raised", !.exc = br.exc]}
    /\ pending' = pending - 1
    /\ UNCHANGED last

Dispatch == call_tool(Requests)

DispatchProbe == call_tool(ProbeRequests)

(* run_ctx: subprocess.run(["ctx"] + list(args), ..., timeout=60) starts   *)
(* the process, or fails to: FileNotFoundError is caught, any other        *)
(* OSError (PermissionError) is not.                                       *)
run_ctx_start ==
    \E c \in calls :
        /\ c.pc = "call"
        /\ LET d == [c EXCEPT !.argv = <<S_ctx>> \o c.args,
                              !.attempts = c.attempts + 1]
           IN  \/ calls' = Replace(c, [d EXCEPT !.pc = "running",
                                                !.backend = "running",
                                                !.elapsed = 0])
               \/ calls' = Replace(c, [d EXCEPT !.pc = "respond",
                                                !.backend = "notfound",
                                                !.stdout = run_ctx_not_found[1],
                                                !.stderr = run_ctx_not_found[2],
                                                !.code = run_ctx_not_found[3]])
               \/ calls' = Replace(c, [d EXCEPT !.pc = "done",
                                                !.backend = "oserror",
                                                !.ended = "raised",
                                                !.exc = "PermissionError"])
        /\ UNCHANGED <<pending, last>>

(* A second passes on the timeout clock of subprocess.run while the        *)
(* backend runs; the clock is dropped when the backend exits.              *)
Tick ==
    \E c \in calls :
        /\ c.pc = "running"
        /\ c.elapsed < SubprocessTimeout
        /\ calls' = Replace(c, [c EXCEPT !.elapsed = c.elapsed + 1])
        /\ UNCHANGED <<pending, last>>

(* The backend exits within the timeout: run_ctx returns                   *)
(* (result.stdout, result.stderr, result.returncode).                      *)
run_ctx_exit(outcomes) ==
    \E c \in calls :
        /\ c.pc = "running"
        /\ c.elapsed < SubprocessTimeout
        /\ \E o \in outcomes :
              calls' = Replace(c, [c EXCEPT !.pc = "respond",
                                            !.backend = "exited",
                                            !.elapsed = 0,
                                            !.stdout = o.stdout,
                                            !.stderr = o.stderr,
                                            !.code = o.code])
        /\ UNCHANGED <<pending, last>>

BackendExits == run_ctx_exit(Outcomes)

BackendExitsProbe == run_ctx_exit(ProbeOutcomes)

(* The backend is still running when the timeout is up: subprocess.run     *)
(* kills it and raises TimeoutExpired, which run_ctx catches.              *)
TimeoutExpired ==
    \E c \in calls :
        /\ c.pc = "running"
        /\ c.elapsed = SubprocessTimeout
        /\ calls' = Replace(c, [c EXCEPT !.pc = "respond",
                                         !.backend = "timeout",
                                         !.stdout = run_ctx_timed_out[1],
                                         !.stderr = run_ctx_timed_out[2],
                                         !.code = run_ctx_timed_out[3]])
        /\ UNCHANGED <<pending, last>>

(* run_ctx has returned: call_tool maps (stdout, stderr, code) to its      *)
(* response and returns.                                                   *)
Respond ==
    \E c \in calls :
        /\ c.pc = "respond"
        /\ calls' = Replace(c, [c EXCEPT !.pc = "done", !.ended = "returned",
                                         !.response =
                                            call_tool_response(c.stdout, c.stderr, c.code)])
        /\ UNCHANGED <<pending, last>>

(* The loop hands the outcome of a finished call back to the transport. *)
Deliver ==
    \E c \in calls :
        /\ c.pc = "done"
        /\ calls' = calls \ {c}
        /\ UNCHANGED <<pending, last>>

(* The same, with the history variable keeping the call. *)
DeliverLogged ==
    \E c \in calls :
        /\ c.pc = "done"
        /\ calls' = calls \ {c}
        /\ last' = {c}
        /\ UNCHANGED pending

Next ==
    \/ Arrive
    \/ Dispatch
    \/ run_ctx_start
    \/ Tick
    \/ BackendExits
    \/ TimeoutExpired
    \/ Respond
    \/ Deliver

Spec == Init /\ [][Next]_vars

(* The handler's own steps always proceed and the timer always fires; the  *)
(* backend need never exit and no request need ever arrive.                *)
Fairness ==
    /\ WF_vars(run_ctx_start)
    /\ WF_vars(Tick)
    /\ WF_vars(TimeoutExpired)
    /\ WF_vars(Respond)

FairSpec == Spec /\ Fairness

NextHistory ==
    \/ Arrive
    \/ DispatchProbe
    \/ run_ctx_start
    \/ Tick
    \/ BackendExitsProbe
    \/ TimeoutExpired
    \/ Respond
    \/ DeliverLogged

SpecHistory == Init /\ [][NextHistory]_vars

----------------------------------------------------------------------------
(* Texts and helpers the properties below are stated with.                 *)

Text_UnknownTool ==
    <<"U","n","k","n","o","w","n"," ","t","o","o","l",":"," ">>

Text_TimedOut ==
    <<"C","o","m","m","a","n","d"," ","t","i","m","e","d"," ","o","u","t",
      " ","a","f","t","e","r"," ","6","0"," ","s","e","c","o","n","d","s">>

Text_NotFoundResponse ==
    <<"E","r","r","o","r",":"," ","c","t","x"," ","n","o","t"," ","f","o",
      "u","n","d"," ","i","n"," ","P","A","T","H","."," ","P","l","e","a",
      "s","e"," ","i","n","s","t","a","l","l"," ","c","t","x"," ","f","i",
      "r","s","t",".","\n","\n","O","u","t","p","u","t",":"," ">>

Text_TimedOutResponse ==
    <<"E","r","r","o","r",":"," ","C","o","m","m","a","n","d"," ","t","i",
      "m","e","d"," ","o","u","t"," ","a","f","t","e","r"," ","6","0"," ",
      "s","e","c","o","n","d","s","\n","\n","O","u","t","p","u","t",":",
      " ">>

Text_Error ==
    <<"E","r","r","o","r",":"," ">>

Text_Output ==
    <<"\n","\n","O","u","t","p","u","t",":"," ">>

Text_ExitCode ==
    <<"C","o","m","m","a","n","d"," ","f","a","i","l","e","d"," ","w","i",
      "t","h"," ","e","x","i","t"," ","c","o","d","e"," ">>

HasPrefix(text, prefix) ==
    Len(text) >= Len(prefix) /\ SubSeq(text, 1, Len(prefix)) = prefix

Contains(text, part) ==
    \E i \in 1..(Len(text) + 1) :
        i + Len(part) - 1 <= Len(text) /\ SubSeq(text, i, i + Len(part) - 1) = part

(* No line break in the text, except possibly as its last character. *)
OneLine(text) == \A i \in 1..(Len(text) - 1) : text[i] # "\n"

SingleText(response, text) == response = <<[type |-> "text", text |-> text]>>

Cataloged(c) == \E i \in DOMAIN list_tools : list_tools[i].name = c.name

RequiredSupplied(c) ==
    \E i \in DOMAIN list_tools :
        /\ list_tools[i].name = c.name
        /\ list_tools[i].required \subseteq DOMAIN c.arguments

(* The subcommand each tool name stands for. *)
SubcommandOf(name) ==
    CASE name = N_ctx_status -> S_status
      [] name = N_ctx_map -> S_map
      [] name = N_ctx_summarize -> S_summarize
      [] name = N_ctx_search -> S_search
      [] name = N_ctx_related -> S_related
      [] name = N_ctx_diff_context -> S_diff_context
      [] name = N_ctx_schema -> S_schema
      [] name = N_ctx_version -> S_version

----------------------------------------------------------------------------
(* C1: catalog and dispatcher agree.  A call naming a cataloged tool with  *)
(* its required fields supplied goes to run_ctx with that tool's own       *)
(* subcommand first, the backend is invoked once with "ctx" and that       *)
(* subcommand, and the answer never starts with "Unknown tool: "; a call   *)
(* naming anything else returns exactly "Unknown tool: <name>" and never   *)
(* invokes the backend.                                                    *)
C1_CatalogMatchesDispatcher ==
    \A c \in calls :
        /\ (Cataloged(c) /\ RequiredSupplied(c)) =>
              /\ Len(c.args) >= 1
              /\ c.args[1] = SubcommandOf(c.name)
              /\ c.pc # "call" =>
                    /\ c.attempts = 1
                    /\ Len(c.argv) >= 2
                    /\ c.argv[1] = S_ctx
                    /\ c.argv[2] = SubcommandOf(c.name)
              /\ \A i \in DOMAIN c.response :
                    ~HasPrefix(c.response[i].text, Text_UnknownTool)
        /\ ~Cataloged(c) =>
              /\ c.pc = "done"
              /\ c.ended = "returned"
              /\ SingleText(c.response, Text_UnknownTool \o c.name)
              /\ c.attempts = 0
              /\ c.argv = <<>>

C1_Witness ==
    \E c \in calls :
        /\ c.name = N_ctx_diff_context
        /\ c.pc = "done"
        /\ c.ended = "returned"
        /\ c.argv[2] = S_diff_context
        /\ c.backend = "exited"

----------------------------------------------------------------------------
(* C2: pass-through.  When the backend exited with code 0, call_tool       *)
(* returns one text item whose text is the captured stdout, whatever       *)
(* stdout and stderr hold.                                                 *)
C2_StdoutPassedThrough ==
    \A c \in calls :
        (c.pc = "done" /\ c.backend = "exited" /\ c.code = 0) =>
            /\ c.ended = "returned"
            /\ SingleText(c.response, c.stdout)

C2_Witness ==
    \E c \in calls :
        /\ c.pc = "done"
        /\ c.backend = "exited"
        /\ c.code = 0
        /\ c.stdout # <<>>
        /\ c.stderr # <<>>

----------------------------------------------------------------------------
(* The three failure outcomes of a backend invocation. *)
FailedToStart(c) == c.backend = "notfound"
TimedOut(c) == c.backend = "timeout"
ReturnedNonzero(c) == c.backend = "exited" /\ c.code # 0

BackendFailed(c) == FailedToStart(c) \/ TimedOut(c) \/ ReturnedNonzero(c)

----------------------------------------------------------------------------
(* C4: the error taxonomy is complete.  Every request ends in a success   *)
(* response or in exactly one of the three error outcomes and never        *)
(* otherwise: no exception leaves call_tool or run_ctx.  Stated here for    *)
(* the requests that name a tool of the catalog, with any arguments (a     *)
(* name outside the catalog gets the "Unknown tool" answer of C1).         *)
C4_TaxonomyComplete ==
    \A c \in calls :
        (c.pc = "done" /\ Cataloged(c)) =>
            /\ c.ended = "returned"
            /\ \/ c.backend = "exited" /\ c.code = 0
               \/ BackendFailed(c)

----------------------------------------------------------------------------
(* What a call was given: the request and what the backend did. *)
SameInputs(c, d) ==
    /\ c.name = d.name
    /\ c.arguments = d.arguments
    /\ c.backend = d.backend
    /\ c.backend = "exited" =>
          (c.stdout = d.stdout /\ c.stderr = d.stderr /\ c.code = d.code)

(* What it produced: the command line, what run_ctx returned, the answer. *)
SameOutputs(c, d) ==
    /\ c.args = d.args
    /\ c.argv = d.argv
    /\ c.attempts = d.attempts
    /\ <<c.stdout, c.stderr, c.code>> = <<d.stdout, d.stderr, d.code>>
    /\ c.ended = d.ended
    /\ c.exc = d.exc
    /\ c.response = d.response

----------------------------------------------------------------------------
(* C6: the backend runs under a bounded timeout, so every call ends even   *)
(* when the backend never exits.  A running backend is never past 60       *)
(* seconds; one still running at 60 seconds is cut off and the answer is   *)
(* the error text carrying "Command timed out after 60 seconds"; every     *)
(* call in progress eventually ends, and one whose backend has started     *)
(* ends by returning a response.                                           *)
C6_CutOffAtTimeout ==
    \A c \in calls :
        /\ c.pc = "running" => c.elapsed <= 60
        /\ TimedOut(c) =>
              /\ c.elapsed = 60
              /\ c.pc \in {"respond", "done"}
              /\ c.pc = "done" =>
                    /\ c.ended = "returned"
                    /\ Len(c.response) = 1
                    /\ HasPrefix(c.response[1].text, Text_Error)
                    /\ Contains(c.response[1].text, Text_TimedOut)

InProgress == \E c \in calls : c.pc # "done"

Ended == \E c \in calls : c.pc = "done"

BackendRunning == \E c \in calls : c.pc = "running"

Answered == \E c \in calls : c.pc = "done" /\ c.ended = "returned" /\ c.attempts = 1

----------------------------------------------------------------------------
(* C7: no retry.  A request for a cataloged tool starts the backend        *)
(* exactly once, and never again after a failure.                          *)
C7_StartedExactlyOnce ==
    \A c \in calls :
        /\ c.attempts <= 1
        /\ (Cataloged(c) /\ c.pc # "call") => c.attempts = 1

(* The part of C7 that holds: the backend is never started a second time. *)
C7_NeverStartedAgain ==
    \A c \in calls :
        /\ c.attempts <= 1
        /\ c.backend # "none" => c.attempts = 1

----------------------------------------------------------------------------
(* C8: one at a time.  However requests arrive, at most one backend        *)
(* process is running at any moment, and no call is in progress beside     *)
(* it: the next backend run starts only after this one exited or timed     *)
(* out.                                                                    *)
C8_OneBackendAtATime ==
    /\ Cardinality({c \in calls : c.pc = "running"}) <= 1
    /\ \A c \in calls : c.pc = "running" => calls = {c}

C8_Witness ==
    /\ pending > 0
    /\ \E c \in calls : c.pc = "running" /\ c.elapsed > 0

----------------------------------------------------------------------------
(* The calls that got as far as a command line for run_ctx. *)
HasCommandLine(c) == c.args # <<>>

FlagWithValue(args, flag, value) ==
    \E i \in 1..(Len(args) - 1) : args[i] = flag /\ args[i + 1] = value

(* The value stands at the place of a positional argument: after the       *)
(* subcommand and --json, and not as the value of --depth or -C.            *)
Positional(args, value) ==
    \E i \in 3..Len(args) : args[i] = value /\ args[i - 1] \notin {S_depth, S_C}

(* C9: every optional argument supplied with a value of its declared type  *)
(* is forwarded.  An integer depth of ctx_map or ctx_summarize gives       *)
(* --depth str(depth); an integer context of ctx_search gives              *)
(* -C str(context); a string path of ctx_map and a string git_ref of       *)
(* ctx_diff_context appear as positional arguments.                        *)
C9_OptionalArgumentsForwarded ==
    \A c \in calls :
        HasCommandLine(c) =>
            /\ (c.name \in {N_ctx_map, N_ctx_summarize} /\ Supplied(c.arguments, "depth"))
                  => FlagWithValue(c.args, S_depth, Str(c.arguments["depth"]))
            /\ (c.name = N_ctx_search /\ Supplied(c.arguments, "context"))
                  => FlagWithValue(c.args, S_C, Str(c.arguments["context"]))
            /\ (c.name = N_ctx_map /\ Supplied(c.arguments, "path"))
                  => Positional(c.args, c.arguments["path"])
            /\ (c.name = N_ctx_diff_context /\ Supplied(c.arguments, "git_ref"))
                  => Positional(c.args, c.arguments["git_ref"])

(* The part of C9 that holds: a supplied value that is not 0 and not the   *)
(* empty string is forwarded.                                              *)
C9_TruthyArgumentsForwarded ==
    \A c \in calls :
        HasCommandLine(c) =>
            /\ (c.name \in {N_ctx_map, N_ctx_summarize} /\ Supplied(c.arguments, "depth")
                    /\ c.arguments["depth"] # 0)
                  => FlagWithValue(c.args, S_depth, Str(c.arguments["depth"]))
            /\ (c.name = N_ctx_search /\ Supplied(c.arguments, "context")
                    /\ c.arguments["context"] # 0)
                  => FlagWithValue(c.args, S_C, Str(c.arguments["context"]))
            /\ (c.name = N_ctx_map /\ Supplied(c.arguments, "path")
                    /\ c.arguments["path"] # <<>>)
                  => Positional(c.args, c.arguments["path"])
            /\ (c.name = N_ctx_diff_context /\ Supplied(c.arguments, "git_ref")
                    /\ c.arguments["git_ref"] # <<>>)
                  => Positional(c.args, c.arguments["git_ref"])

----------------------------------------------------------------------------
FlagTokens == {S_json, S_depth, S_skeleton, S_symbol, S_caller, S_C}

IsFlagAt(argv, j) == argv[j] \in FlagTokens

(* After "ctx" and the subcommand, neither a flag nor a flag's value. *)
IsPositionalAt(argv, i) ==
    /\ i > 2
    /\ argv[i] \notin FlagTokens
    /\ argv[i - 1] \notin {S_depth, S_C}

(* On every command line, every positional value comes after every flag. *)
PositionalsLast(argv) ==
    \A i \in DOMAIN argv : \A j \in DOMAIN argv :
        (IsPositionalAt(argv, i) /\ IsFlagAt(argv, j)) => j < i

(* The optional flags a command line may carry, in their fixed order. *)
SearchFlags(arguments) ==
    {s \o k \o x : s \in {<<>>, <<S_symbol>>}, k \in {<<>>, <<S_caller>>},
                   x \in {<<>>} \cup
                         (IF Supplied(arguments, "context")
                          THEN {<<S_C, Str(arguments["context"])>>} ELSE {})}

SummarizeFlags(arguments) ==
    {s \o d : s \in {<<>>, <<S_skeleton>>},
              d \in {<<>>} \cup
                    (IF Supplied(arguments, "depth")
                     THEN {<<S_depth, Str(arguments["depth"])>>} ELSE {})}

GivenPaths(arguments) ==
    IF Supplied(arguments, "paths") THEN arguments["paths"] ELSE <<>>

(* C10, amended: for ctx_search the command line is ctx search --json,     *)
(* the optional flags in the order --symbol, --caller, -C <context>, and   *)
(* the query as its last element; for ctx_summarize it is                  *)
(* ctx summarize --json, the optional --skeleton and --depth <d>, and then *)
(* all the given paths in the order given.  (For ctx_map the path comes    *)
(* before --depth.)                                                        *)
C10_SearchAndSummarizeOrder ==
    \A c \in calls :
        c.argv # <<>> =>
            /\ c.name = N_ctx_search =>
                  \E f \in SearchFlags(c.arguments) :
                      c.argv = <<S_ctx, S_search, S_json>> \o f \o <<c.arguments["query"]>>
            /\ c.name = N_ctx_summarize =>
                  \E f \in SummarizeFlags(c.arguments) :
                      c.argv = <<S_ctx, S_summarize, S_json>> \o f \o GivenPaths(c.arguments)

(* C10 as stated: caller-supplied positional values always come last on    *)
(* the command line, after the fixed prefix and all flags, and the command *)
(* lines of ctx_search and ctx_summarize are as above.                     *)
C10_PositionalsAlwaysLast ==
    /\ \A c \in calls : PositionalsLast(c.argv)
    /\ C10_SearchAndSummarizeOrder

C10_Witness ==
    \E c \in calls :
        /\ c.name = N_ctx_summarize
        /\ c.argv = <<S_ctx, S_summarize, S_json, S_skeleton, S_depth, <<"1","2">>,
                      <<"b">>, <<"a">>>>

C10_MapPathBeforeDepth ==
    \E c \in calls :
        c.argv = <<S_ctx, S_map, S_json, <<"s","r","c">>, S_depth, <<"1","2">>>>

====
